---- MODULE Spec2Model ----
(***************************************************************************)
(* A state-machine model of the AdSpendWise backend (backend/server.py):   *)
(* the two collections of the store (db.campaigns, db.analyses), the       *)
(* request handlers that write them, and the arithmetic of the KPI and     *)
(* fallback-score computation.                                             *)
(*                                                                         *)
(* Python floats are modelled as exact fractions num/den (den > 0) plus    *)
(* NaN (den = 0); binary rounding error is not modelled.  Time is counted  *)
(* in whole hours.  Text fields that no handler inspects are left out; the *)
(* narrative of an Analysis is kept as a tag naming the code line that     *)
(* produced it.                                                            *)
(***************************************************************************)
EXTENDS Integers, Sequences, FiniteSets, TLC

VARIABLES campaigns, analyses, now, bulk, prevBulk, last

vars == <<campaigns, analyses, now, bulk, prevBulk, last>>

(***************************************************************************)
(* Bounds of the model.                                                    *)
(***************************************************************************)
MaxCampaigns == 2
MaxAnalyses == 2
MaxTime == 3
MaxRows == 2
MaxCount == 2
MaxMoney == 4

(***************************************************************************)
(* Program constants.                                                      *)
(***************************************************************************)
Timedelta_hours == 1
ScoreMin == 1
ScoreMax == 100
ToListLimit == 1000

(***************************************************************************)
(* Python float arithmetic.                                                *)
(***************************************************************************)
Abs(n) == IF n < 0 THEN -n ELSE n

RECURSIVE GCD(_, _)
GCD(a, b) == IF b = 0 THEN a ELSE GCD(b, a % b)

\* the float n/d, d > 0, in lowest terms
Frac(n, d) ==
    LET g == GCD(Abs(n), d)
    IN  [num |-> (IF n < 0 THEN -(Abs(n) \div g) ELSE n \div g), den |-> d \div g]

F(n) == [num |-> n, den |-> 1]

NaN == [num |-> 0, den |-> 0]

\* the value of an expression whose evaluation raised ZeroDivisionError
ZeroDivisionError == [num |-> 0, den |-> -1]

IsNaN(x) == x.den = 0

Raised(x) == x.den < 0

IsNumber(x) == x.den > 0

\* x > 0 ; a comparison with NaN is False
GtZero(x) == IsNumber(x) /\ x.num > 0

FAdd(x, y) ==
    IF Raised(x) \/ Raised(y) THEN ZeroDivisionError
    ELSE IF IsNaN(x) \/ IsNaN(y) THEN NaN
    ELSE Frac(x.num * y.den + y.num * x.den, x.den * y.den)

FSub(x, y) ==
    IF Raised(x) \/ Raised(y) THEN ZeroDivisionError
    ELSE IF IsNaN(x) \/ IsNaN(y) THEN NaN
    ELSE Frac(x.num * y.den - y.num * x.den, x.den * y.den)

FMul(x, y) ==
    IF Raised(x) \/ Raised(y) THEN ZeroDivisionError
    ELSE IF IsNaN(x) \/ IsNaN(y) THEN NaN
    ELSE Frac(x.num * y.num, x.den * y.den)

\* x / y ; Python raises ZeroDivisionError for a zero divisor
FDiv(x, y) ==
    IF Raised(x) \/ Raised(y) THEN ZeroDivisionError
    ELSE IF IsNumber(y) /\ y.num = 0 THEN ZeroDivisionError
    ELSE IF IsNaN(x) \/ IsNaN(y) THEN NaN
    ELSE IF y.num < 0 THEN Frac(-(x.num * y.den), x.den * (-y.num))
    ELSE Frac(x.num * y.den, x.den * y.num)

\* int(x) of a number: truncation toward zero
int(x) == IF x.num < 0 THEN -((-x.num) \div x.den) ELSE x.num \div x.den

min(a, b) == IF a < b THEN a ELSE b

max(a, b) == IF a > b THEN a ELSE b

(***************************************************************************)
(* Calculate key metrics (analyze_campaign).                               *)
(***************************************************************************)
\* the CTR without the test for impressions > 0
ctr_unguarded(c) == FMul(FDiv(F(c.clicks), F(c.impressions)), F(100))

ctr(c) ==
    IF c.impressions > 0
    THEN FMul(FDiv(F(c.clicks), F(c.impressions)), F(100))
    ELSE F(0)

conversion_rate(c) ==
    IF c.clicks > 0
    THEN FMul(FDiv(F(c.conversions), F(c.clicks)), F(100))
    ELSE F(0)

cpa(c) ==
    IF c.conversions > 0 THEN FDiv(c.spend, F(c.conversions)) ELSE c.spend

roas(c) ==
    IF GtZero(c.spend) THEN FDiv(c.revenue, c.spend) ELSE F(0)

roi(c) ==
    IF GtZero(c.spend)
    THEN FMul(FDiv(FSub(c.revenue, c.spend), c.spend), F(100))
    ELSE F(0)

Metrics(c) ==
    [ctr |-> ctr(c), conversion_rate |-> conversion_rate(c), cpa |-> cpa(c),
     roas |-> roas(c), roi |-> roi(c)]

MetricsRaised(m) ==
    Raised(m.ctr) \/ Raised(m.conversion_rate) \/ Raised(m.cpa)
        \/ Raised(m.roas) \/ Raised(m.roi)

\* min(max(int(roi + 50), 1), 100) ; int() raises ValueError on NaN
FallbackScoreRaises(r) == ~IsNumber(FAdd(r, F(50)))

\* the score with ROI + 50 rounded to the nearest integer instead
fallback_score_rounded(r) ==
    LET x == FAdd(r, F(50))
        f == IF x.num < 0 THEN -((-x.num + x.den - 1) \div x.den) ELSE x.num \div x.den
        up == 2 * (x.num - f * x.den) >= x.den
    IN  min(max((IF up THEN f + 1 ELSE f), ScoreMin), ScoreMax)

fallback_score(r) == min(max(int(FAdd(r, F(50))), ScoreMin), ScoreMax)


(***************************************************************************)
(* Inputs.                                                                 *)
(***************************************************************************)
CampaignCreate(i, k, v, s, r) ==
    [impressions |-> i, clicks |-> k, conversions |-> v, spend |-> s, revenue |-> r]

\* the sample campaign of backend_test.py
SampleCampaign == CampaignCreate(100000, 5000, 250, F(5000), F(12500))

ZeroCampaign == CampaignCreate(0, 0, 0, F(0), F(0))

\* a losing campaign whose ROI is not a whole number: -33.33 %
LosingCampaign == CampaignCreate(10, 1, 0, F(3), F(2))

\* a body whose revenue is NaN (a JSON NaN literal, an empty CSV cell)
NaNCampaign == CampaignCreate(10, 1, 1, F(3), NaN)

CampaignInputs == {ZeroCampaign, LosingCampaign, NaNCampaign}

\* the bodies of the metrics specification: every combination of small
\* counters and amounts, the amounts also negative or NaN, and the sample
GridCampaigns ==
    { CampaignCreate(i, k, v, F(s), r) :
        i \in 0..MaxCount, k \in 0..MaxCount, v \in 0..MaxCount,
        s \in (-1)..MaxMoney,
        r \in {F(x) : x \in (-MaxMoney)..MaxMoney} \cup {NaN} }
    \cup {SampleCampaign}

\* the AI collaborator's outcomes: the call raises, the reply is not JSON, or
\* the reply is JSON, matching the schema or not; keys are the keys the JSON
\* object carries beside the six of the schema, an "id" of "0" and a
\* "created_at" of hour 0
Reply(kind, schema, score, keys) ==
    [kind |-> kind, schema |-> schema, overall_score |-> score, keys |-> keys,
     id |-> 0, created_at |-> 0]

AIReplies ==
    { Reply("raise", FALSE, 0, {}), Reply("text", FALSE, 0, {}),
      Reply("json", FALSE, 0, {}), Reply("json", TRUE, 85, {}),
      Reply("json", TRUE, 150, {}) }

\* replies whose JSON object carries a key that is a field of AIAnalysis
ExtraKeyReplies ==
    { Reply("json", TRUE, 85, k) : k \in {{"id"}, {"campaign_id"}, {"created_at"}} }

(***************************************************************************)
(* The store.                                                              *)
(***************************************************************************)
\* uuid.uuid4(): an id no stored document of the collection carries
uuid4(coll) == Len(coll) + 1

\* a query that ignores its filter
find_one_any(coll, id) == IF coll = <<>> THEN <<>> ELSE <<coll[1]>>

\* db.<collection>.find_one({"id": id}): the first match, or None (<<>>)
find_one(coll, id) ==
    LET hits == SelectSeq(coll, LAMBDA d : d.id = id)
    IN  IF hits = <<>> THEN <<>> ELSE <<hits[1]>>

\* db.<collection>.find().to_list(n)
to_list(coll, n) == SubSeq(coll, 1, min(Len(coll), n))

CampaignData(c, id) ==
    [id |-> id, impressions |-> c.impressions, clicks |-> c.clicks,
     conversions |-> c.conversions, spend |-> c.spend, revenue |-> c.revenue]

AIAnalysis(id, campaign_id, performance_analysis, overall_score, created_at) ==
    [id |-> id, campaign_id |-> campaign_id,
     performance_analysis |-> performance_analysis,
     overall_score |-> overall_score, created_at |-> created_at]

(***************************************************************************)
(* analyze_campaign: what one call returns and inserts, given the AI       *)
(* collaborator's outcome.  status 200 carries the stored Analysis; 404 is *)
(* HTTPException(404); 500 is an exception that leaves the handler.        *)
(***************************************************************************)
Outcome(status, ai_called, inserted, metrics) ==
    [status |-> status, ai_called |-> ai_called, inserted |-> inserted,
     metrics |-> metrics]

\* lines 224-239: the except branch
error_fallback(campaign_id, m) ==
    IF FallbackScoreRaises(m.roi)
    THEN Outcome(500, TRUE, <<>>, m)
    ELSE Outcome(200, TRUE,
                 <<AIAnalysis(uuid4(analyses), campaign_id, "performance",
                              fallback_score(m.roi), now)>>, m)

\* a try branch in which the keys of the reply win over the handler's own
\* campaign_id argument
ai_analysis_reply_wins(campaign_id, m, ai) ==
    IF ai.kind = "json" /\ ai.schema
    THEN Outcome(200, TRUE,
                 <<AIAnalysis(uuid4(analyses),
                              (IF "campaign_id" \in ai.keys THEN 0 ELSE campaign_id),
                              "ai", ai.overall_score, now)>>, m)
    ELSE error_fallback(campaign_id, m)

\* lines 192-222: the try branch
ai_analysis(campaign_id, m, ai) ==
    CASE ai.kind = "raise" -> error_fallback(campaign_id, m)
      [] ai.kind = "text" ->
            IF FallbackScoreRaises(m.roi)
            THEN error_fallback(campaign_id, m)
            ELSE Outcome(200, TRUE,
                         <<AIAnalysis(uuid4(analyses), campaign_id, "shows",
                                      fallback_score(m.roi), now)>>, m)
      [] ai.kind = "json" ->
            IF ~ai.schema \/ "campaign_id" \in ai.keys
            THEN error_fallback(campaign_id, m)
            ELSE Outcome(200, TRUE,
                         <<AIAnalysis(
                             (IF "id" \in ai.keys THEN ai.id ELSE uuid4(analyses)),
                             campaign_id, "ai", ai.overall_score,
                             (IF "created_at" \in ai.keys THEN ai.created_at ELSE now))>>,
                         m)

analyze_campaign(campaign_id, ai) ==
    LET campaign == find_one(campaigns, campaign_id)
    IN  IF campaign = <<>>
        THEN Outcome(404, FALSE, <<>>, Metrics(ZeroCampaign))
        ELSE LET m == Metrics(campaign[1])
             IN  IF MetricsRaised(m)
                 THEN Outcome(500, FALSE, <<>>, m)
                 ELSE ai_analysis(campaign_id, m, ai)

(***************************************************************************)
(* bulk_upload_campaigns: the uploaded file is its name's suffix, the      *)
(* header pandas reads and the data rows; a row is the values its cells    *)
(* coerce to, or a row whose impressions cell int() rejects.               *)
(***************************************************************************)
required_columns ==
    <<"campaign_name", "platform", "impressions", "clicks", "conversions",
      "spend", "revenue", "target_audience", "ad_copy">>

Range(s) == {s[k] : k \in DOMAIN s}

\* a report that stops at the first missing column
missing_columns_first(columns) ==
    LET all == SelectSeq(required_columns, LAMBDA col : col \notin columns)
    IN  IF all = <<>> THEN <<>> ELSE <<all[1]>>

missing_columns(columns) ==
    SelectSeq(required_columns, LAMBDA col : col \notin columns)

Row(coerces, c) == [coerces |-> coerces, c |-> c]

BadRow == Row(FALSE, ZeroCampaign)

RowInputs == {Row(TRUE, NaNCampaign), BadRow}

RECURSIVE SeqsUpTo(_, _)
SeqsUpTo(S, n) ==
    IF n = 0 THEN {<<>>}
    ELSE LET shorter == SeqsUpTo(S, n - 1)
         IN  shorter \cup {Append(s, x) : s \in shorter, x \in S}

Headers ==
    { Range(required_columns) \cup {"keywords"},
      Range(required_columns) \ {"spend"},
      Range(required_columns) \ {"campaign_name", "revenue"} }

File(csv, columns, rows) == [csv |-> csv, columns |-> columns, rows |-> rows]

Files ==
    { File(FALSE, Range(required_columns), <<>>) }
    \cup { File(TRUE, h, <<Row(TRUE, NaNCampaign)>>) : h \in Headers }
    \cup { File(TRUE, Range(required_columns), rows) : rows \in SeqsUpTo(RowInputs, MaxRows) }

\* the rows before the first one that does not coerce
RECURSIVE coerced_prefix(_)
coerced_prefix(rows) ==
    IF rows = <<>> \/ ~rows[1].coerces THEN <<>>
    ELSE <<rows[1]>> \o coerced_prefix(Tail(rows))

\* lines 267-284: the documents the loop inserts, in order
RECURSIVE inserted_rows(_, _)
inserted_rows(rows, store) ==
    IF rows = <<>> THEN <<>>
    ELSE <<CampaignData(rows[1].c, uuid4(store))>>
         \o inserted_rows(Tail(rows), Append(store, CampaignData(rows[1].c, uuid4(store))))

HTTPException(status, text, columns, cause) ==
    [status |-> status, text |-> text, columns |-> columns, cause |-> cause]

\* str(e) of starlette's HTTPException is "<status_code>: <detail>"
bulk_upload_campaigns(file) ==
    IF ~file.csv
    THEN [inserted |-> <<>>,
          error |-> HTTPException(400, "File must be a CSV", <<>>, "none")]
    ELSE IF missing_columns(file.columns) /= <<>>
    THEN [inserted |-> <<>>,
          error |-> HTTPException(400, "Error processing file: 400: Missing required columns",
                                  missing_columns(file.columns), "HTTPException")]
    ELSE LET done == inserted_rows(coerced_prefix(file.rows), campaigns)
         IN  IF Len(done) < Len(file.rows)
             THEN [inserted |-> done,
                   error |-> HTTPException(400, "Error processing file: invalid literal",
                                           <<>>, "ValueError")]
             ELSE [inserted |-> done, error |-> HTTPException(200, "Successfully uploaded", <<>>, "none")]

(***************************************************************************)
(* get_dashboard_summary.                                                  *)
(***************************************************************************)
RECURSIVE sum(_)
sum(xs) == IF xs = <<>> THEN F(0) ELSE FAdd(xs[1], sum(Tail(xs)))

Field(docs, f) == [k \in DOMAIN docs |-> docs[k][f]]

Scores(docs) == [k \in DOMAIN docs |-> F(docs[k].overall_score)]

\* the aggregate ROI without the test for total_spend > 0
avg_roi_unguarded(total_revenue, total_spend) ==
    FMul(FDiv(FSub(total_revenue, total_spend), total_spend), F(100))

avg_roi(total_revenue, total_spend) ==
    IF GtZero(total_spend)
    THEN FMul(FDiv(FSub(total_revenue, total_spend), total_spend), F(100))
    ELSE F(0)

avg_score(docs) ==
    IF docs /= <<>> THEN FDiv(sum(Scores(docs)), F(Len(docs))) ELSE F(0)

get_dashboard_summary(cs, as) ==
    IF cs = <<>>
    THEN [total_campaigns |-> 0, total_spend |-> F(0), total_revenue |-> F(0),
          avg_roi |-> F(0), total_analyses |-> 0, avg_score |-> F(0)]
    ELSE [total_campaigns |-> Len(cs),
          total_spend |-> sum(Field(cs, "spend")),
          total_revenue |-> sum(Field(cs, "revenue")),
          avg_roi |-> avg_roi(sum(Field(cs, "revenue")), sum(Field(cs, "spend"))),
          total_analyses |-> Len(as),
          avg_score |-> avg_score(as)]

SummaryRaised(s) ==
    Raised(s.total_spend) \/ Raised(s.total_revenue) \/ Raised(s.avg_roi)
        \/ Raised(s.avg_score)

(***************************************************************************)
(* bulk_analyze_campaigns: the freshness query of lines 301-304.           *)
(***************************************************************************)
\* a freshness query that never finds an Analysis
recent_analysis_none(coll, campaign_id, t) == <<>>

recent_analysis(coll, campaign_id, t) ==
    LET hits == SelectSeq(coll, LAMBDA a :
                    a.campaign_id = campaign_id /\ a.created_at >= t - Timedelta_hours)
    IN  IF hits = <<>> THEN <<>> ELSE <<hits[1]>>

(***************************************************************************)
(* Requests.  `last` is the response of the request that completed last,   *)
(* with what the request was given and the sizes of the collections when   *)
(* it began; both collections only ever grow at their end.  prevBulk       *)
(* records that a bulk-analyze call began and returned within the current  *)
(* hour and that no campaign has been stored since it returned.            *)
(***************************************************************************)
Callers == {"b1", "b2"}

Idle ==
    [pc |-> "idle", campaigns |-> <<>>, i |-> 0, analyses_created |-> <<>>,
     log |-> <<>>, started |-> 0]

Init ==
    /\ campaigns = <<>>
    /\ analyses = <<>>
    /\ now = 2
    /\ bulk = [p \in Callers |-> Idle]
    /\ prevBulk = FALSE
    /\ last = [op |-> "start", status |-> 200]

\* POST /campaigns
CreateCampaign(c) ==
    /\ Len(campaigns) < MaxCampaigns
    /\ campaigns' = Append(campaigns, CampaignData(c, uuid4(campaigns)))
    /\ last' = [op |-> "create_campaign", status |-> 200,
                campaign |-> CampaignData(c, uuid4(campaigns))]
    /\ prevBulk' = FALSE
    /\ UNCHANGED <<analyses, now, bulk>>

\* POST /campaigns/{campaign_id}/analyze
AnalyzeCampaign(campaign_id, ai) ==
    LET out == analyze_campaign(campaign_id, ai)
    IN  /\ Len(analyses) + Len(out.inserted) <= MaxAnalyses
        /\ analyses' = analyses \o out.inserted
        /\ last' = [op |-> "analyze_campaign", status |-> out.status,
                    campaign_id |-> campaign_id, ai_called |-> out.ai_called,
                    returned |-> out.inserted, metrics |-> out.metrics,
                    before |-> Len(analyses), keys |-> ai.keys]
        /\ UNCHANGED <<campaigns, now, bulk, prevBulk>>

\* POST /campaigns/bulk-upload
BulkUpload(file) ==
    LET out == bulk_upload_campaigns(file)
    IN  /\ Len(campaigns) + Len(out.inserted) <= MaxCampaigns
        /\ campaigns' = campaigns \o out.inserted
        /\ last' = [op |-> "bulk_upload_campaigns", status |-> out.error.status,
                    detail |-> out.error, csv |-> file.csv, columns |-> file.columns,
                    returned |-> (IF out.error.status = 200 THEN out.inserted ELSE <<>>),
                    before |-> Len(campaigns)]
        /\ prevBulk' = (prevBulk /\ out.inserted = <<>>)
        /\ UNCHANGED <<analyses, now, bulk>>

\* GET /dashboard/summary
DashboardSummary ==
    LET s == get_dashboard_summary(to_list(campaigns, ToListLimit),
                                   to_list(analyses, ToListLimit))
    IN  /\ last' = [op |-> "get_dashboard_summary",
                    status |-> (IF SummaryRaised(s) THEN 500 ELSE 200),
                    summary |-> s]
        /\ UNCHANGED <<campaigns, analyses, now, bulk, prevBulk>>

\* POST /campaigns/bulk-analyze, line 294: the campaigns are read
BulkStart(p) ==
    /\ bulk[p].pc = "idle"
    /\ bulk' = [bulk EXCEPT ![p] =
                    [pc |-> "check", campaigns |-> to_list(campaigns, ToListLimit),
                     i |-> 1, analyses_created |-> <<>>, log |-> <<>>,
                     started |-> now]]
    /\ last' = [op |-> "bulk_step", status |-> 200]
    /\ UNCHANGED <<campaigns, analyses, now, prevBulk>>

\* lines 297-306: the freshness query for the next campaign of the loop
BulkCheck(p) ==
    LET b == bulk[p]
    IN  /\ b.pc = "check"
        /\ b.i <= Len(b.campaigns)
        /\ bulk' = [bulk EXCEPT ![p] =
              [b EXCEPT !.pc = IF recent_analysis(analyses, b.campaigns[b.i].id, now) = <<>>
                               THEN "analyze" ELSE "check",
                        !.i = IF recent_analysis(analyses, b.campaigns[b.i].id, now) = <<>>
                              THEN b.i ELSE b.i + 1,
                        !.log = Append(b.log, [seen |-> Len(analyses), at |-> now])]]
        /\ last' = [op |-> "bulk_step", status |-> 200]
        /\ UNCHANGED <<campaigns, analyses, now, prevBulk>>

\* lines 307-313: the analysis of that campaign; an exception is logged
BulkAnalyze(p, ai) ==
    LET b == bulk[p]
        out == analyze_campaign(b.campaigns[b.i].id, ai)
    IN  /\ b.pc = "analyze"
        /\ Len(analyses) + Len(out.inserted) <= MaxAnalyses
        /\ analyses' = analyses \o out.inserted
        /\ bulk' = [bulk EXCEPT ![p] =
              [b EXCEPT !.pc = "check", !.i = b.i + 1,
                        !.analyses_created =
                            IF out.status = 200 THEN b.analyses_created \o out.inserted
                            ELSE b.analyses_created]]
        /\ last' = [op |-> "bulk_step", status |-> 200]
        /\ UNCHANGED <<campaigns, now, prevBulk>>

\* line 315: the loop is over
BulkReturn(p) ==
    LET b == bulk[p]
    IN  /\ b.pc = "check"
        /\ b.i > Len(b.campaigns)
        /\ bulk' = [bulk EXCEPT ![p] = Idle]
        /\ prevBulk' = (b.started = now)
        /\ last' = [op |-> "bulk_analyze_campaigns", status |-> 200,
                    returned |-> b.analyses_created, campaigns |-> b.campaigns,
                    log |-> b.log, previous |-> prevBulk]
        /\ UNCHANGED <<campaigns, analyses, now>>

\* the passage of one hour
Tick ==
    /\ now < MaxTime
    /\ now' = now + 1
    /\ prevBulk' = FALSE
    /\ UNCHANGED <<campaigns, analyses, bulk, last>>

\* no bulk-analyze call is in progress
Quiet == \A p \in Callers : bulk[p].pc = "idle"

\* requests are served one at a time; an hour may pass at any moment
Next ==
    \/ Quiet /\ \E c \in CampaignInputs : CreateCampaign(c)
    \/ Quiet /\ \E id \in 1..(Len(campaigns) + 1), ai \in AIReplies : AnalyzeCampaign(id, ai)
    \/ Quiet /\ \E file \in Files : BulkUpload(file)
    \/ Quiet /\ DashboardSummary
    \/ Quiet /\ BulkStart("b1")
    \/ BulkCheck("b1")
    \/ \E ai \in AIReplies : BulkAnalyze("b1", ai)
    \/ BulkReturn("b1")
    \/ Tick

Spec == Init /\ [][Next]_vars

(***************************************************************************)
(* The metrics specification: one stored campaign drawn from the grid, and *)
(* one analyze_campaign call on it for each outcome of the AI call.        *)
(***************************************************************************)
InitMetrics ==
    /\ campaigns \in {<<CampaignData(c, 1)>> : c \in GridCampaigns}
    /\ analyses = <<>>
    /\ now = 2
    /\ bulk = [p \in Callers |-> Idle]
    /\ prevBulk = FALSE
    /\ last = [op |-> "start", status |-> 200]

NextMetrics == analyses = <<>> /\ \E ai \in AIReplies : AnalyzeCampaign(1, ai)

SpecMetrics == InitMetrics /\ [][NextMetrics]_vars

(***************************************************************************)
(* The extra-keys specification: campaigns are created and analyzed, and   *)
(* the AI reply may carry keys that are fields of AIAnalysis.              *)
(***************************************************************************)
NextExtraKeys ==
    \/ \E c \in CampaignInputs : CreateCampaign(c)
    \/ \E id \in 1..(Len(campaigns) + 1), ai \in AIReplies \cup ExtraKeyReplies :
            AnalyzeCampaign(id, ai)
    \/ Tick

SpecExtraKeys == Init /\ [][NextExtraKeys]_vars

(***************************************************************************)
(* The concurrent specification: two bulk-analyze calls are in progress at *)
(* once.  The event loop switches between them at every await, so the      *)
(* freshness query of one call (line 301) and the analysis it then         *)
(* triggers (line 309) are separate steps, and steps of the other call may *)
(* come between them.                                                      *)
(***************************************************************************)
\* the campaigns and the outcomes of the AI call of the concurrent runs: a
\* campaign whose analysis always succeeds and one whose fallback raises; an
\* AI call that fails and one that replies with the requested JSON
RaceCampaigns == {LosingCampaign, NaNCampaign}

RaceReplies == {Reply("raise", FALSE, 0, {}), Reply("json", TRUE, 85, {})}

NextRace ==
    \/ \E c \in RaceCampaigns : CreateCampaign(c)
    \/ \E p \in Callers : BulkStart(p)
    \/ \E p \in Callers : BulkCheck(p)
    \/ \E p \in Callers, ai \in RaceReplies : BulkAnalyze(p, ai)
    \/ \E p \in Callers : BulkReturn(p)
    \/ Tick

SpecRace == Init /\ [][NextRace]_vars

(***************************************************************************)
(* The references specification: every operation that writes or reads the  *)
(* stores, served one at a time, with an AI that fails, replies with the   *)
(* requested JSON, or replies with JSON that also carries "campaign_id".   *)
(***************************************************************************)
ReferenceReplies ==
    { Reply("raise", FALSE, 0, {}), Reply("json", TRUE, 85, {}),
      Reply("json", TRUE, 85, {"campaign_id"}) }

NextReferences ==
    \/ Quiet /\ \E c \in CampaignInputs : CreateCampaign(c)
    \/ Quiet /\ \E id \in 1..(Len(campaigns) + 1), ai \in ReferenceReplies :
                    AnalyzeCampaign(id, ai)
    \/ Quiet /\ \E file \in Files : BulkUpload(file)
    \/ Quiet /\ DashboardSummary
    \/ Quiet /\ BulkStart("b1")
    \/ BulkCheck("b1")
    \/ \E ai \in ReferenceReplies : BulkAnalyze("b1", ai)
    \/ BulkReturn("b1")
    \/ Tick

SpecReferences == Init /\ [][NextReferences]_vars

(***************************************************************************)
(* Properties.                                                             *)
(***************************************************************************)
Stored(coll, id) == \E k \in DOMAIN coll : coll[k].id = id

TheCampaign(id) == campaigns[CHOOSE k \in DOMAIN campaigns : campaigns[k].id = id]

Analyzed == last.op = "analyze_campaign"

\* the analysis the last analyze_campaign call stored came from a fallback
FromFallback ==
    /\ Analyzed /\ last.status = 200
    /\ last.returned[1].performance_analysis \in {"shows", "performance"}

\* C1: analyze_campaign on a stored campaign id never surfaces an error,
\* whatever the AI call did: it answers 200, appends exactly one Analysis to
\* the store and returns that Analysis.
C1_AnalyzeAlwaysStoresOne ==
    (Analyzed /\ Stored(campaigns, last.campaign_id)) =>
        /\ last.status = 200
        /\ Len(last.returned) = 1
        /\ Len(analyses) = last.before + 1
        /\ analyses[Len(analyses)] = last.returned[1]

\* C2: analyze_campaign on an id that no stored campaign carries answers
\* 404, makes no AI call and stores no Analysis.
C2_UnknownCampaignNotFound ==
    (Analyzed /\ ~Stored(campaigns, last.campaign_id)) =>
        /\ last.status = 404
        /\ ~last.ai_called
        /\ last.returned = <<>>
        /\ Len(analyses) = last.before

C2_Witness ==
    /\ Analyzed /\ last.status = 404
    /\ campaigns /= <<>> /\ analyses /= <<>>

\* C3: every stored Analysis has an overall_score in 1..100.
C3_ScoreInRange ==
    \A k \in DOMAIN analyses :
        analyses[k].overall_score >= 1 /\ analyses[k].overall_score <= 100

\* ROI + 50 of a campaign with numeric spend and revenue, as the fraction
\* n/d with d > 0 (ROI is 0 when spend is not positive)
ShiftedRoiNum(c) ==
    IF c.spend.num > 0
    THEN 100 * (c.revenue.num * c.spend.den - c.spend.num * c.revenue.den)
            + 50 * c.spend.num * c.revenue.den
    ELSE 50

ShiftedRoiDen(c) == IF c.spend.num > 0 THEN c.spend.num * c.revenue.den ELSE 1

\* s = clamp(r + 50, 1, 100) for an integer r nearest to ROI (a tie may go
\* either way)
IsClampedRound(s, c) ==
    \E t \in (ShiftedRoiNum(c) \div ShiftedRoiDen(c) - 1)
                ..(ShiftedRoiNum(c) \div ShiftedRoiDen(c) + 1) :
        /\ 2 * Abs(t * ShiftedRoiDen(c) - ShiftedRoiNum(c)) <= ShiftedRoiDen(c)
        /\ s = min(max(t, 1), 100)

\* s = clamp(t, 1, 100) for the integer t that ROI + 50 truncates to
IsClampedTrunc(s, c) ==
    IF ShiftedRoiNum(c) >= 100 * ShiftedRoiDen(c) THEN s = 100
    ELSE IF ShiftedRoiNum(c) < 2 * ShiftedRoiDen(c) THEN s = 1
    ELSE s * ShiftedRoiDen(c) <= ShiftedRoiNum(c)
            /\ ShiftedRoiNum(c) < (s + 1) * ShiftedRoiDen(c)

\* C4 as stated: on both fallback paths the stored overall_score is
\* clamp(round(ROI) + 50, 1, 100).
C4_FallbackScoreRounds ==
    FromFallback =>
        IsClampedRound(last.returned[1].overall_score, TheCampaign(last.campaign_id))

\* C4 as amended: on both fallback paths the stored overall_score is
\* clamp(int(ROI + 50), 1, 100), ROI + 50 truncated toward zero and not
\* rounded; ROI = 1000 gives 100, ROI = -1000 gives 1, ROI = 0 gives 50.
C4_FallbackScoreTruncates ==
    FromFallback =>
        IsClampedTrunc(last.returned[1].overall_score, TheCampaign(last.campaign_id))

\* a fallback has stored 16 for ROI = -33.33, where rounding gives 17
C4_Witness ==
    /\ FromFallback
    /\ TheCampaign(last.campaign_id).spend = F(3)
    /\ TheCampaign(last.campaign_id).revenue = F(2)
    /\ last.returned[1].overall_score = 16

NonNegative(c) ==
    /\ c.impressions >= 0 /\ c.clicks >= 0 /\ c.conversions >= 0
    /\ IsNumber(c.spend) /\ c.spend.num >= 0
    /\ IsNumber(c.revenue) /\ c.revenue.num >= 0

\* x is the float n/d
IsQuotient(x, n, d) == IsNumber(x) /\ x.num * d = n * x.den

\* C5: for non-negative inputs the KPI computation raises nothing and
\* yields CTR = clicks/impressions*100 (0 when impressions = 0), conversion
\* rate = conversions/clicks*100 (0 when clicks = 0), CPA = spend/conversions
\* (spend when conversions = 0), ROAS = revenue/spend and ROI =
\* (revenue - spend)/spend*100 (both 0 when spend = 0); the sample campaign
\* gives 5, 5, 20, 2.5 and 150.
C5_Metrics ==
    (Analyzed /\ Stored(campaigns, last.campaign_id)
        /\ NonNegative(TheCampaign(last.campaign_id))) =>
        LET c == TheCampaign(last.campaign_id)
            m == last.metrics
            spend == c.spend.num
            revenue == c.revenue.num
        IN  /\ ~MetricsRaised(m)
            /\ IF c.impressions = 0 THEN m.ctr = F(0)
               ELSE IsQuotient(m.ctr, 100 * c.clicks, c.impressions)
            /\ IF c.clicks = 0 THEN m.conversion_rate = F(0)
               ELSE IsQuotient(m.conversion_rate, 100 * c.conversions, c.clicks)
            /\ IF c.conversions = 0 THEN m.cpa = c.spend
               ELSE IsQuotient(m.cpa, spend, c.conversions)
            /\ IF spend = 0 THEN m.roas = F(0) /\ m.roi = F(0)
               ELSE /\ IsQuotient(m.roas, revenue, spend)
                    /\ IsQuotient(m.roi, 100 * (revenue - spend), spend)
            /\ (c.impressions = 100000 /\ c.clicks = 5000 /\ c.conversions = 250
                    /\ spend = 5000 /\ revenue = 12500) =>
                  m = [ctr |-> F(5), conversion_rate |-> F(5), cpa |-> F(20),
                       roas |-> [num |-> 5, den |-> 2], roi |-> F(150)]

C5_Witness ==
    /\ Analyzed
    /\ TheCampaign(last.campaign_id).impressions = 100000
    /\ last.metrics.roas = [num |-> 5, den |-> 2]
    /\ last.metrics.roi = F(150)

Uploaded == last.op = "bulk_upload_campaigns"

AbsentColumns(upload) == Range(required_columns) \ upload.columns

\* C6: an upload whose header lacks required columns fails with status 400
\* and a detail that reports the missing columns, listing exactly the absent
\* required columns (only "spend" when only spend is absent), and stores no
\* campaign.
C6_MissingColumns ==
    (Uploaded /\ last.csv /\ AbsentColumns(last) /= {}) =>
        /\ last.status = 400
        /\ last.detail.cause = "HTTPException"
        /\ Range(last.detail.columns) = AbsentColumns(last)
        /\ Len(last.detail.columns) = Cardinality(AbsentColumns(last))
        /\ (AbsentColumns(last) = {"spend"} => last.detail.columns = <<"spend">>)
        /\ last.returned = <<>>
        /\ Len(campaigns) = last.before

C6_Witness ==
    /\ Uploaded /\ last.status = 400
    /\ Cardinality(AbsentColumns(last)) = 2
    /\ campaigns /= <<>>

\* C7: an upload with a complete header in which the coercion of a data row
\* raised fails with an error and leaves the campaign store as it was before
\* the call.
C7_FailedImportStoresNothing ==
    (Uploaded /\ last.csv /\ AbsentColumns(last) = {}
        /\ last.detail.cause = "ValueError") =>
        /\ last.status = 400
        /\ Len(campaigns) = last.before

BulkAnalyzed == last.op = "bulk_analyze_campaigns"

\* coll holds an Analysis of the campaign created within the hour before t
HasRecent(coll, campaign_id, t) ==
    \E k \in DOMAIN coll :
        coll[k].campaign_id = campaign_id /\ t - coll[k].created_at <= 1

\* the analyses of the campaign among those a bulk-analyze call returned
ReturnedFor(campaign_id) ==
    {j \in DOMAIN last.returned : last.returned[j].campaign_id = campaign_id}

\* the analyses stored when the call examined the k-th campaign it read
SeenAt(k) == SubSeq(analyses, 1, last.log[k].seen)

\* C8: a bulk-analyze call examines every stored campaign and, for each one
\* without an Analysis of the trailing hour, creates, stores and returns
\* exactly one Analysis, whatever the AI call did.
C8_BulkAnalyzesEveryStale ==
    BulkAnalyzed =>
        /\ Len(last.log) = Len(last.campaigns)
        /\ \A k \in DOMAIN last.campaigns :
              ~HasRecent(SeenAt(k), last.campaigns[k].id, last.log[k].at) =>
                  /\ Cardinality(ReturnedFor(last.campaigns[k].id)) = 1
                  /\ \A j \in ReturnedFor(last.campaigns[k].id) :
                        \E n \in (last.log[k].seen + 1)..Len(analyses) :
                            analyses[n] = last.returned[j]

\* C9: a bulk-analyze call creates no Analysis for a campaign that has one
\* of the trailing hour; and a call that follows, within the hour, a call
\* that began in that hour, with no campaign stored in between, creates none.
C9_BulkSkipsFresh ==
    BulkAnalyzed =>
        /\ \A k \in DOMAIN last.campaigns :
              HasRecent(SeenAt(k), last.campaigns[k].id, last.log[k].at) =>
                  ReturnedFor(last.campaigns[k].id) = {}
        /\ last.previous => last.returned = <<>>

Summarized == last.op = "get_dashboard_summary"

PlaceIn(list, campaign_id) == CHOOSE k \in DOMAIN list : list[k].id = campaign_id

\* the place of an Analysis in the store
StoredAt(a) == CHOOSE n \in DOMAIN analyses : analyses[n] = a

\* C11: the freshness check and the insert of a bulk-analyze call are two
\* steps: every Analysis a call in progress has created is stored after the
\* call's own check of that campaign, and that check found no Analysis of
\* the trailing hour in the store as it stood then; nothing examines the
\* store again between the check and the insert, so two concurrent calls can
\* both pass the check for one campaign and both store an Analysis.
C11_CheckThenActRaces ==
    \A p \in Callers :
        \A j \in DOMAIN bulk[p].analyses_created :
            LET a == bulk[p].analyses_created[j]
                e == bulk[p].log[PlaceIn(bulk[p].campaigns, a.campaign_id)]
            IN  /\ ~HasRecent(SubSeq(analyses, 1, e.seen), a.campaign_id, e.at)
                /\ \E n \in (e.seen + 1)..Len(analyses) : analyses[n] = a

\* both calls checked the same campaign before either stored its Analysis,
\* and the campaign now has two Analyses created in the same hour
C11_Witness ==
    \E j1 \in DOMAIN bulk["b1"].analyses_created,
       j2 \in DOMAIN bulk["b2"].analyses_created :
        LET a1 == bulk["b1"].analyses_created[j1]
            a2 == bulk["b2"].analyses_created[j2]
            e1 == bulk["b1"].log[PlaceIn(bulk["b1"].campaigns, a1.campaign_id)]
            e2 == bulk["b2"].log[PlaceIn(bulk["b2"].campaigns, a2.campaign_id)]
        IN  /\ a1.campaign_id = a2.campaign_id
            /\ a1 /= a2
            /\ a1.created_at = a2.created_at
            /\ e1.seen < StoredAt(a1) /\ e1.seen < StoredAt(a2)
            /\ e2.seen < StoredAt(a1) /\ e2.seen < StoredAt(a2)
            /\ HasRecent(analyses, a1.campaign_id, now)

\* C12: the Analysis an analyze_campaign call stores carries the requested
\* campaign id and an id that no Analysis stored before the call carries,
\* whatever the AI reply holds; no two stored Analyses share an id.
C12_AnalysisIdsFresh ==
    /\ (Analyzed /\ last.status = 200) =>
          /\ last.returned[1].campaign_id = last.campaign_id
          /\ \A k \in 1..last.before : analyses[k].id /= last.returned[1].id
    /\ \A j, k \in DOMAIN analyses : j /= k => analyses[j].id /= analyses[k].id

\* C13: every stored Analysis carries the id of a stored Campaign, and the
\* campaigns stored before a request are still stored, unchanged, after it:
\* an Analysis is written only for a campaign id found in the store.
C13_AnalysisReferencesCampaign ==
    /\ [](/\ \A k \in DOMAIN analyses : Stored(campaigns, analyses[k].campaign_id)
          /\ (Analyzed /\ last.returned /= <<>>) =>
                /\ Stored(campaigns, last.campaign_id)
                /\ last.returned[1].campaign_id = last.campaign_id)
    /\ [][/\ Len(campaigns') >= Len(campaigns)
          /\ SubSeq(campaigns', 1, Len(campaigns)) = campaigns]_vars

\* the AI reply carried its own "campaign_id", and the Analysis was stored
\* for the second of two stored campaigns
C13_Witness ==
    /\ Analyzed /\ last.status = 200
    /\ "campaign_id" \in last.keys
    /\ last.campaign_id = 2
    /\ Len(campaigns) = 2
    /\ analyses[Len(analyses)].campaign_id = 2

====
